---- MODULE Spec2Model ----
(***************************************************************************)
(* Finance tracker: the server's recurrence engine                        *)
(* (processRecurringTransactions, calculateNextDueDate, the Agenda job    *)
(* and the manual endpoint) and the client's storage-mode state machine   *)
(* (handleAuth, saveToCloud, loadFromCloud, local storage).               *)
(*                                                                         *)
(* Dates are whole days counted from 1970-01-01 (the day number of a      *)
(* JavaScript Date in a UTC process); the time of day is not modelled.    *)
(***************************************************************************)
EXTENDS Integers, Sequences, FiniteSets, TLC

VARIABLES
  nodeEnv,                \* process.env.NODE_ENV of the server process
  now,                    \* the server clock (new Date()), a day number
  recurringTransactions,  \* the RecurringTransaction collection, in creation order
  serverTransactions,     \* the Transaction collection
  uuidSeq,                \* randomUUID(): the number of ids handed out so far
  proc,                   \* per entry point: the call of processRecurringTransactions in progress
  faults,                 \* store errors injected so far
  runLog,                 \* history: one record per call of processRecurringTransactions
  materialized,           \* history: the Transactions the engine saved
  advanced,               \* history: the nextDueDate writes of the engine
  advInput,               \* calculateNextDueDate: the arguments of a call
  advResult,              \* calculateNextDueDate: <<>>, or the result applied once and twice
  user,                   \* client: the user state (NULL when signed out)
  storageMode,            \* client: "memory", "local" or "cloud"
  transactions,           \* client: the transactions state, newest first
  showAuth,               \* client: the sign-in dialog is open
  lsTransactions,         \* localStorage["financeTransactions"] (NULL when absent)
  lsUser,                 \* localStorage["financeUser"] (NULL when absent)
  auth,                   \* client: the call of handleAuth in progress
  saves,                  \* the POST /api/transactions requests on their way
  lastHandler,            \* history: the client handler that ran last
  build,                  \* the client build: "App.tsx" or "App.jsx"
  effects,                \* client: the runs of the real-time useEffect, oldest first
  loads,                  \* the GET /api/transactions requests on their way
  sseChannels,            \* server: the open responses of GET /api/sse/:userId
  lastPost,               \* history: the status of the last POST /api/transactions[/add]
  isDataLoading,          \* client: the isDataLoading state
  reloads                 \* the calls of loadFromCloud followed step by step, oldest first

engineVars == <<nodeEnv, now, recurringTransactions, serverTransactions,
                uuidSeq, proc, faults, runLog, materialized, advanced>>

advanceVars == <<advInput, advResult>>

clientVars == <<user, storageMode, transactions, showAuth, lsTransactions, lsUser,
                auth, saves, lastHandler>>

syncVars == <<build, effects, loads>>

sseVars == <<sseChannels, lastPost>>

loadVars == <<isDataLoading, reloads>>

vars == <<engineVars, advanceVars, clientVars, syncVars, sseVars, loadVars>>

NULL == "null"

\* A Date field that holds null (endDate, lastProcessed).
NoDate == 0 - 1

Frequencies == {"daily", "weekly", "monthly", "yearly"}

(***************************************************************************)
(* Calendar arithmetic of the JavaScript Date object.                      *)
(***************************************************************************)

\* Day number of the civil date y-m-d (m in 1..12, d in 1..31).
DaysFromCivil(y, m, d) ==
  LET yy  == IF m <= 2 THEN y - 1 ELSE y
      era == yy \div 400
      yoe == yy - era * 400
      mp  == IF m > 2 THEN m - 3 ELSE m + 9
      doy == (153 * mp + 2) \div 5 + d - 1
      doe == yoe * 365 + yoe \div 4 - yoe \div 100 + doy
  IN  era * 146097 + doe - 719468

\* The civil date [y, m, d] of day number n: getFullYear, getMonth()+1, getDate.
CivilFromDays(n) ==
  LET z   == n + 719468
      era == z \div 146097
      doe == z - era * 146097
      yoe == (doe - doe \div 1460 + doe \div 36524 - doe \div 146096) \div 365
      doy == doe - (365 * yoe + yoe \div 4 - yoe \div 100)
      mp  == (5 * doy + 2) \div 153
      d   == doy - (153 * mp + 2) \div 5 + 1
      m   == IF mp < 10 THEN mp + 3 ELSE mp - 9
      y   == yoe + era * 400 + (IF m <= 2 THEN 1 ELSE 0)
  IN  [y |-> y, m |-> m, d |-> d]

IsLeapYear(y) == (y % 4 = 0 /\ y % 100 # 0) \/ y % 400 = 0

DaysInMonth(y, m) ==
  IF m = 2 THEN (IF IsLeapYear(y) THEN 29 ELSE 28)
  ELSE IF m \in {4, 6, 9, 11} THEN 30 ELSE 31

\* Date.prototype.setMonth(month0) on day n, month0 counted from 0 and allowed
\* to be 12: the year carries, the day of the month is kept as an offset from
\* the first of the target month, so a day the month lacks rolls over.
SetMonth(n, month0) ==
  LET c == CivilFromDays(n)
  IN  DaysFromCivil(c.y + month0 \div 12, (month0 % 12) + 1, 1) + (c.d - 1)

\* Date.prototype.setFullYear(year) on day n.
SetFullYear(n, year) ==
  LET c == CivilFromDays(n)
  IN  DaysFromCivil(year, c.m, 1) + (c.d - 1)

\* A variant in which the daily case sets the date it already has.
calculateNextDueDate_dailyStuck(currentDate, frequency) ==
  CASE frequency = "daily"   -> currentDate
    [] frequency = "weekly"  -> currentDate + 7
    [] frequency = "monthly" -> SetMonth(currentDate, CivilFromDays(currentDate).m)
    [] frequency = "yearly"  -> SetFullYear(currentDate, CivilFromDays(currentDate).y + 1)

\* calculateNextDueDate(currentDate, frequency): setDate(getDate() + 1),
\* setDate(getDate() + 7), setMonth(getMonth() + 1), setFullYear(getFullYear() + 1).
calculateNextDueDate(currentDate, frequency) ==
  CASE frequency = "daily"   -> currentDate + 1
    [] frequency = "weekly"  -> currentDate + 7
    [] frequency = "monthly" -> SetMonth(currentDate, CivilFromDays(currentDate).m)
    [] frequency = "yearly"  -> SetFullYear(currentDate, CivilFromDays(currentDate).y + 1)

(***************************************************************************)
(* Bounds of the model.                                                    *)
(***************************************************************************)
MaxRuns == 2           \* calls of processRecurringTransactions
MaxFaults == 1         \* injected store errors

Users == {"u1"}
StartDay == DaysFromCivil(2023, 12, 1)
\* The request bodies of POST /api/recurring-transactions that are tried.
RuleInputs ==
  {[frequency |-> "daily", startDate |-> StartDay, endDate |-> DaysFromCivil(2024, 1, 31)],
   [frequency |-> "monthly", startDate |-> StartDay, endDate |-> NoDate]}
\* The instants at which the clock is read after the start.
Instants == {DaysFromCivil(2024, 1, 1), DaysFromCivil(2024, 2, 15)}

AgendaWorker == <<"agenda", 1>>
\* The requests POST /api/admin/process-recurring being served.
AdminHandlers == {<<"admin", 1>>}
EntryPoints == {AgendaWorker} \cup AdminHandlers

\* The dates calculateNextDueDate is applied to: StartDay .. StartDay + MaxDays.
MaxDays == 800
MaxClientTransactions == 2  \* transactions added in the browser
MaxPendingSaves == 1        \* POST /api/transactions requests in flight

Idle == [pc |-> "idle", run |-> 0, now |-> NoDate, due |-> <<>>]

RuleIds == 1..Len(recurringTransactions)

(***************************************************************************)
(* The change notifications: Transaction.watch of GET /api/sse/:userId.    *)
(***************************************************************************)
\* The elements of a list, as a set.
Range(list) == {list[k] : k \in DOMAIN list}

MaxChannels == 2         \* responses of GET /api/sse/:userId open at once
MaxPendingChanges == 2   \* change events a change stream has not yet handed over

ChannelIds == 1..MaxChannels

NoChannel == [open |-> FALSE, userId |-> NULL, pending |-> 0, last |-> "none"]

\* The fullDocument of a change event, as a sequence of no or one document:
\* with {fullDocument: "updateLookup"} an insert carries the document, a
\* delete carries none.
FullDocument(operationType, doc) ==
  IF operationType = "delete" THEN <<>> ELSE <<doc>>

\* The $match stage of Transaction.watch: {"fullDocument.userId": userId,
\* operationType: {$in: ["insert", "update", "delete"]}}
ChangeMatches(operationType, doc, userId) ==
  /\ \E fullDocument \in Range(FullDocument(operationType, doc)) :
       fullDocument.userId = userId
  /\ operationType \in {"insert", "update", "delete"}

\* The change events of a committed write that pass the filter of a channel.
Matched(userId, inserted, deleted) ==
  Cardinality({d \in inserted : ChangeMatches("insert", d, userId)})
    + Cardinality({d \in deleted : ChangeMatches("delete", d, userId)})

\* A committed write reaches the change stream of every open channel.
Notify(inserted, deleted) ==
  /\ \A c \in ChannelIds :
       sseChannels[c].open =>
         sseChannels[c].pending + Matched(sseChannels[c].userId, inserted, deleted)
           <= MaxPendingChanges
  /\ sseChannels' =
       [c \in ChannelIds |->
          IF sseChannels[c].open
          THEN [sseChannels[c] EXCEPT
                  !.pending = @ + Matched(sseChannels[c].userId, inserted, deleted)]
          ELSE sseChannels[c]]

(***************************************************************************)
(* The recurrence engine.                                                  *)
(***************************************************************************)

\* A variant of the query without the isActive condition.
IsDue_ignoreActive(doc, at) ==
  /\ doc.nextDueDate <= at
  /\ (doc.endDate = NoDate \/ doc.endDate >= at)

\* A variant of the query without the nextDueDate condition.
IsDue_ignoreCursor(doc, at) ==
  /\ doc.isActive
  /\ (doc.endDate = NoDate \/ doc.endDate >= at)

\* A variant of the query with the nextDueDate comparison the other way round.
IsDue_cursorFlipped(doc, at) ==
  /\ doc.isActive
  /\ doc.nextDueDate >= at
  /\ (doc.endDate = NoDate \/ doc.endDate >= at)

\* RecurringTransaction.find({isActive: true, nextDueDate: {$lte: now},
\*   $or: [{endDate: null}, {endDate: {$gte: now}}]})
IsDue(doc, at) ==
  /\ doc.isActive
  /\ doc.nextDueDate <= at
  /\ (doc.endDate = NoDate \/ doc.endDate >= at)

DueIds(at) == {i \in RuleIds : IsDue(recurringTransactions[i], at)}

\* The sequences that list every element of S once (the order of a find
\* without a sort is the store's choice).
Orderings(S) ==
  {q \in [1..Cardinality(S) -> S] : \A i, j \in 1..Cardinality(S) : i # j => q[i] # q[j]}

Snapshot(i) ==
  LET doc == recurringTransactions[i]
  IN  [id |-> i, userId |-> doc.userId, frequency |-> doc.frequency,
       nextDueDate |-> doc.nextDueDate]

Active == {p \in EntryPoints : proc[p].pc # "idle"}

\* The loop ends and the call returns.
Finish(p, run, rules) ==
  /\ proc' = [proc EXCEPT ![p] = Idle]
  /\ runLog' = [runLog EXCEPT ![run].outcome = "ok",
                              ![run].endCursor =
                                 [i \in DOMAIN rules |-> rules[i].nextDueDate]]

\* A call begins: the history gets its record.
Begin(selected) ==
  Append([r \in DOMAIN runLog |->
            IF runLog[r].outcome = "running"
            THEN [runLog[r] EXCEPT !.overlapped = TRUE] ELSE runLog[r]],
         [now |-> now, selected |-> selected, outcome |-> "running",
          overlapped |-> Active # {}, failedRule |-> 0, endCursor |-> <<>>])

\* const now = new Date(); await RecurringTransaction.find(...): the call
\* reads the clock and the store answers with the due rules, or rejects.
processRecurringTransactions(p) ==
  /\ proc[p].pc = "idle"
  /\ Len(runLog) < MaxRuns
  /\ \/ /\ \E q \in Orderings(DueIds(now)) :
             IF q = <<>>
             THEN /\ runLog' = [Begin({}) EXCEPT ![Len(runLog) + 1].outcome = "ok",
                                  ![Len(runLog) + 1].endCursor =
                                     [i \in RuleIds |-> recurringTransactions[i].nextDueDate]]
                  /\ UNCHANGED proc
             ELSE /\ runLog' = Begin(DueIds(now))
                  /\ proc' = [proc EXCEPT ![p] =
                                [pc |-> "save", run |-> Len(runLog) + 1, now |-> now,
                                 due |-> [k \in DOMAIN q |-> Snapshot(q[k])]]]
        /\ UNCHANGED faults
     \/ /\ faults < MaxFaults
        /\ faults' = faults + 1
        /\ runLog' = [Begin({}) EXCEPT ![Len(runLog) + 1].outcome = "failed",
                        ![Len(runLog) + 1].endCursor =
                           [i \in RuleIds |-> recurringTransactions[i].nextDueDate]]
        /\ UNCHANGED proc
  /\ UNCHANGED <<nodeEnv, now, recurringTransactions, serverTransactions,
                 uuidSeq, materialized, advanced>>
  /\ UNCHANGED <<advanceVars, loadVars, clientVars, syncVars, sseVars>>

\* The hourly Agenda job "process recurring transactions": one worker
\* (maxConcurrency 1), so the job starts only when its last run has ended.
AgendaJob == processRecurringTransactions(AgendaWorker)

\* POST /api/admin/process-recurring: 403 in production, else runs the engine.
AdminProcessRecurring(p) ==
  IF nodeEnv = "production"
  THEN proc[p].pc = "idle" /\ UNCHANGED vars
  ELSE processRecurringTransactions(p)

\* await newTransaction.save()
Save(p) ==
  /\ proc[p].pc = "save"
  /\ LET recurring == Head(proc[p].due)
     IN  /\ serverTransactions' = serverTransactions \cup
               {[userId |-> recurring.userId, transactionId |-> uuidSeq + 1,
                 date |-> proc[p].now]}
         /\ uuidSeq' = uuidSeq + 1
         /\ materialized' = materialized \cup
               {[rule |-> recurring.id, run |-> proc[p].run, date |-> proc[p].now,
                 cursor |-> recurring.nextDueDate, transactionId |-> uuidSeq + 1]}
         /\ Notify({[userId |-> recurring.userId, transactionId |-> uuidSeq + 1,
                      date |-> proc[p].now]}, {})
  /\ proc' = [proc EXCEPT ![p].pc = "update"]
  /\ UNCHANGED <<nodeEnv, now, recurringTransactions, faults, runLog, advanced>>
  /\ UNCHANGED <<advanceVars, loadVars, clientVars, syncVars, lastPost>>

\* A variant that steps from the time of the run.
NextCursor_fromNow(recurring, runNow) ==
  calculateNextDueDate(runNow, recurring.frequency)

\* const nextDueDate = calculateNextDueDate(recurring.nextDueDate, recurring.frequency)
NextCursor(recurring, runNow) ==
  calculateNextDueDate(recurring.nextDueDate, recurring.frequency)

\* await RecurringTransaction.updateOne({_id}, {$set: {nextDueDate, lastProcessed}})
\* and the step of the for loop.
Update(p) ==
  /\ proc[p].pc = "update"
  /\ LET recurring == Head(proc[p].due)
         nextDueDate == NextCursor(recurring, proc[p].now)
         rules == [recurringTransactions EXCEPT
                     ![recurring.id].nextDueDate = nextDueDate,
                     ![recurring.id].lastProcessed = proc[p].now]
     IN  /\ recurringTransactions' = rules
         /\ advanced' = advanced \cup
               {[rule |-> recurring.id, run |-> proc[p].run,
                 from |-> recurring.nextDueDate, to |-> nextDueDate,
                 n |-> Cardinality({a \in advanced :
                                      a.rule = recurring.id /\ a.run = proc[p].run}) + 1]}
         /\ IF Len(proc[p].due) = 1
            THEN Finish(p, proc[p].run, rules)
            ELSE /\ proc' = [proc EXCEPT ![p].pc = "save", ![p].due = Tail(proc[p].due)]
                 /\ UNCHANGED runLog
  /\ UNCHANGED <<nodeEnv, now, serverTransactions, uuidSeq, faults, materialized>>
  /\ UNCHANGED <<advanceVars, loadVars, clientVars, syncVars, sseVars>>

\* save() or updateOne() rejects: the catch around the whole loop logs and
\* rethrows, the call ends.
StoreError(p) ==
  /\ proc[p].pc \in {"save", "update"}
  /\ faults < MaxFaults
  /\ faults' = faults + 1
  /\ proc' = [proc EXCEPT ![p] = Idle]
  /\ runLog' = [runLog EXCEPT ![proc[p].run].outcome = "failed",
                              ![proc[p].run].failedRule = Head(proc[p].due).id,
                              ![proc[p].run].endCursor =
                                 [i \in RuleIds |-> recurringTransactions[i].nextDueDate]]
  /\ UNCHANGED <<nodeEnv, now, recurringTransactions, serverTransactions,
                 uuidSeq, materialized, advanced>>
  /\ UNCHANGED <<advanceVars, loadVars, clientVars, syncVars, sseVars>>

\* POST /api/recurring-transactions; each request body is submitted once.
CreateRecurring ==
  /\ \E userId \in Users, body \in RuleInputs :
       /\ \A i \in RuleIds :
            <<recurringTransactions[i].frequency, recurringTransactions[i].endDate>>
              # <<body.frequency, body.endDate>>
       /\ recurringTransactions' = Append(recurringTransactions,
         [userId |-> userId, frequency |-> body.frequency,
          startDate |-> body.startDate, endDate |-> body.endDate,
          nextDueDate |-> calculateNextDueDate(body.startDate, body.frequency),
          isActive |-> TRUE, lastProcessed |-> NoDate])
  /\ UNCHANGED <<nodeEnv, now, serverTransactions, uuidSeq, proc, faults,
                 runLog, materialized, advanced>>
  /\ UNCHANGED <<advanceVars, loadVars, clientVars, syncVars, sseVars>>

\* Time passes.
Tick ==
  /\ \E t \in Instants : t > now /\ now' = t
  /\ UNCHANGED <<nodeEnv, recurringTransactions, serverTransactions, uuidSeq, proc,
                 faults, runLog, materialized, advanced>>
  /\ UNCHANGED <<advanceVars, loadVars, clientVars, syncVars, sseVars>>

EngineInit ==
  /\ nodeEnv \in {"production", "development"}
  /\ now = StartDay
  /\ recurringTransactions = <<>>
  /\ serverTransactions = {}
  /\ uuidSeq = 0
  /\ proc = [p \in EntryPoints |-> Idle]
  /\ faults = 0
  /\ runLog = <<>>
  /\ materialized = {}
  /\ advanced = {}

(***************************************************************************)
(* calculateNextDueDate applied to every date of a range.                  *)
(***************************************************************************)
AdvanceIdle == advInput = <<>> /\ advResult = <<>>

AdvanceInit ==
  /\ advInput \in [date : StartDay..(StartDay + MaxDays), frequency : Frequencies]
  /\ advResult = <<>>

Advance ==
  /\ advResult = <<>>
  /\ LET once == calculateNextDueDate(advInput.date, advInput.frequency)
     IN  advResult' = <<once, calculateNextDueDate(once, advInput.frequency)>>
  /\ UNCHANGED <<advInput, engineVars, clientVars, syncVars, sseVars, loadVars>>

(***************************************************************************)
(* The client: storage modes, local storage, sign-in and sign-out.         *)
(* An event handler sees the state of the render it was created in: a      *)
(* handler reads the current state when it is called and keeps reading     *)
(* those values after an await.                                            *)
(***************************************************************************)
AuthIdle == [pc |-> "idle", closure |-> <<>>]

\* The two client builds of the repository: the TypeScript component and
\* the JavaScript component that main.jsx mounts. They differ here in the
\* real-time effect and in updateUserCurrency, which only App.tsx has.
Builds == {"App.tsx", "App.jsx"}

MaxRetries == 3          \* const maxRetries = 3
PollEvery == 10000       \* setInterval(..., 10000)
ReconnectBase == 5000    \* setTimeout(connectSSE, 5000 * sseFailCount)
DefaultLimit == 50       \* parseInt(req.query.limit) || 50

MaxEffects == 2          \* runs of the real-time effect within one page

\* The documents POST /api/transactions inserts for a list.
Docs(userId, list) ==
  {[userId |-> userId, transactionId |-> t.id, date |-> t.date] : t \in Range(list)}

\* The user's documents in the Transaction collection.
Remote(userId) == {d \in serverTransactions : d.userId = userId}

\* saveToLocalStorage(): writes the transactions of the handler's render.
saveToLocalStorage(closureTransactions) == closureTransactions

\* saveToCloud(newTransactions): `if (!user) return;`, else the POST request.
saveToCloud(closureUser, newTransactions) ==
  IF closureUser = NULL
  THEN {}
  ELSE {[userId |-> closureUser, transactions |-> newTransactions]}

\* loadFromLocalStorage(): true (and setTransactions) when the key holds an
\* array. Every transaction this client writes carries its currency, so the
\* `currency || "USD"` of the map changes nothing.
loadFromLocalStorage == lsTransactions # NULL

\* loadFromCloud(): `if (!user) return;`, else the GET request.
loadFromCloud(closureUser) ==
  IF closureUser = NULL THEN {} ELSE {[user |-> closureUser]}

(***************************************************************************)
(* The real-time effect, useEffect(..., [user]): each run has its own      *)
(* eventSource, pollingInterval, reconnectTimeout and sseFailCount.        *)
(* sources, reconnects and polls count the EventSource objects not closed, *)
(* the reconnect timers pending and the poll intervals running.            *)
(***************************************************************************)

\* connectSSE() in a new run of the effect.
\* session numbers the signed-in session of the run, lastEvent is the callback
\* of the run that ran last, reconnectIn and pollEvery are the delays of the
\* last setTimeout and setInterval of the run.
NewEffect(closureUser, session, inherited) ==
  [user |-> closureUser, session |-> session, es |-> "connecting", sources |-> 1,
   reconnects |-> 0, reconnectIn |-> 0, polls |-> 0, pollEvery |-> 0,
   sseFailCount |-> 0, cleaned |-> FALSE, sessionPolled |-> inherited,
   lastEvent |-> "none"]

\* A variant of the cleanup that leaves the poll interval running.
Cleanup_keepsPolling(e) ==
  [e EXCEPT !.es = IF e.es \in {"connecting", "open"} THEN "closed" ELSE e.es,
            !.sources = IF e.es \in {"connecting", "open"} THEN e.sources - 1
                        ELSE e.sources,
            !.cleaned = TRUE]

\* The function the effect returns: closes eventSource, clears
\* pollingInterval and, in App.tsx, reconnectTimeout. App.jsx keeps no
\* handle of its reconnect timer and does not clear it.
Cleanup(e) ==
  [e EXCEPT !.es = IF e.es \in {"connecting", "open"} THEN "closed" ELSE e.es,
            !.sources = IF e.es \in {"connecting", "open"} THEN e.sources - 1
                        ELSE e.sources,
            !.polls = IF e.polls > 0 THEN e.polls - 1 ELSE 0,
            !.reconnects = IF build = "App.tsx" /\ e.reconnects > 0
                           THEN e.reconnects - 1 ELSE e.reconnects,
            !.cleaned = TRUE]

\* The effect after a render with a new user object: the cleanup of the
\* last run, then `if (!user) return;` or a new run. sessionPolled records
\* that a run of the same signed-in session has started polling.
RunEffect(newUser) ==
  LET cleaned == [i \in DOMAIN effects |->
                    IF effects[i].cleaned THEN effects[i] ELSE Cleanup(effects[i])]
      running == {i \in DOMAIN effects : ~effects[i].cleaned}
      session == IF running = {} THEN Len(effects) + 1
                 ELSE effects[CHOOSE i \in running : TRUE].session
      inherited == \E i \in running : effects[i].sessionPolled
  IN  IF newUser = NULL THEN cleaned
      ELSE Append(cleaned, NewEffect(newUser, session, inherited))

\* The two effects with the dependency [user], after setUser.
AfterSetUser(newUser) ==
  /\ effects' = RunEffect(newUser)
  /\ loads' = loads \cup loadFromCloud(newUser)

\* A variant that starts in memory mode whenever no user is saved.
loadInitialData_alwaysMemory ==
  /\ showAuth' = FALSE
  /\ auth' = AuthIdle
  /\ IF lsUser # NULL
     THEN /\ user' = lsUser /\ storageMode' = "cloud" /\ transactions' = <<>>
          /\ effects' = <<NewEffect(lsUser, 1, FALSE)>>
          /\ loads' = loadFromCloud(lsUser)
     ELSE /\ user' = NULL
          /\ effects' = <<>>
          /\ loads' = {}
          /\ transactions' = <<>> /\ storageMode' = "memory"
  /\ lastHandler' = "loadInitialData"
  /\ UNCHANGED <<lsTransactions, lsUser, saves, build, engineVars, advanceVars, loadVars, sseVars>>

\* loadInitialData(), on mounting the component: a page load. The state of
\* the previous page, its handlers in progress, its timers and its
\* connections are gone.
loadInitialData ==
  /\ showAuth' = FALSE
  /\ auth' = AuthIdle
  /\ IF lsUser # NULL
     THEN /\ user' = lsUser /\ storageMode' = "cloud" /\ transactions' = <<>>
          /\ effects' = <<NewEffect(lsUser, 1, FALSE)>>
          /\ loads' = loadFromCloud(lsUser)
     ELSE /\ user' = NULL
          /\ effects' = <<>>
          /\ loads' = {}
          /\ IF loadFromLocalStorage
             THEN transactions' = lsTransactions /\ storageMode' = "local"
             ELSE transactions' = <<>> /\ storageMode' = "memory"
  /\ lastHandler' = "loadInitialData"
  /\ UNCHANGED <<lsTransactions, lsUser, saves, build, engineVars, advanceVars, loadVars, sseVars>>

\* switchToLocalStorage(), the button shown in memory mode when signed out.
switchToLocalStorage ==
  /\ user = NULL /\ storageMode = "memory"
  /\ storageMode' = "local"
  /\ lsTransactions' = IF Len(transactions) > 0
                       THEN saveToLocalStorage(transactions) ELSE lsTransactions
  /\ lastHandler' = "switchToLocalStorage"
  /\ UNCHANGED <<user, transactions, showAuth, lsUser, auth, saves,
                 engineVars, advanceVars, loadVars, syncVars, sseVars>>

\* addTransaction() with a valid form.
addTransaction ==
  /\ uuidSeq < MaxClientTransactions
  /\ LET newTransaction == [id |-> uuidSeq + 1, date |-> now]
         updatedTransactions == <<newTransaction>> \o transactions
         requests == IF storageMode = "cloud" /\ user # NULL
                     THEN saveToCloud(user, updatedTransactions) ELSE {}
     IN  /\ Cardinality(saves \cup requests) <= MaxPendingSaves
         /\ transactions' = updatedTransactions
         /\ saves' = saves \cup requests
         /\ lsTransactions' = IF ~(storageMode = "cloud" /\ user # NULL)
                                 /\ storageMode = "local"
                              THEN saveToLocalStorage(transactions) ELSE lsTransactions
  /\ uuidSeq' = uuidSeq + 1
  /\ lastHandler' = "addTransaction"
  /\ UNCHANGED <<user, storageMode, showAuth, lsUser, auth, advanceVars, loadVars,
                 nodeEnv, now, recurringTransactions, serverTransactions, proc, faults,
                 runLog, materialized, advanced, syncVars, sseVars>>

\* deleteTransaction(id)
deleteTransaction ==
  /\ \E t \in Range(transactions) :
       LET updatedTransactions == SelectSeq(transactions, LAMBDA x : x.id # t.id)
           requests == IF storageMode = "cloud" /\ user # NULL
                       THEN saveToCloud(user, updatedTransactions) ELSE {}
       IN  /\ Cardinality(saves \cup requests) <= MaxPendingSaves
           /\ transactions' = updatedTransactions
           /\ saves' = saves \cup requests
           /\ lsTransactions' = IF ~(storageMode = "cloud" /\ user # NULL)
                                   /\ storageMode = "local"
                                THEN saveToLocalStorage(transactions) ELSE lsTransactions
  /\ lastHandler' = "deleteTransaction"
  /\ UNCHANGED <<user, storageMode, showAuth, lsUser, auth, engineVars, advanceVars, loadVars,
                 syncVars, sseVars>>

\* The Sign In button, shown when signed out.
OpenAuth ==
  /\ user = NULL /\ ~showAuth
  /\ showAuth' = TRUE
  /\ lastHandler' = "OpenAuth"
  /\ UNCHANGED <<user, storageMode, transactions, lsTransactions, lsUser, auth, saves,
                 engineVars, advanceVars, loadVars, syncVars, sseVars>>

\* handleAuth(), up to the await of the login or register request.
handleAuth ==
  /\ showAuth /\ auth.pc = "idle"
  /\ auth' = [pc |-> "fetch",
              closure |-> [user |-> user, storageMode |-> storageMode,
                           transactions |-> transactions]]
  /\ lastHandler' = "handleAuth"
  /\ UNCHANGED <<user, storageMode, transactions, showAuth, lsTransactions, lsUser,
                 saves, engineVars, advanceVars, loadVars, syncVars, sseVars>>

\* handleAuth() after a response that is ok: setUser, the session key, the
\* upload of the local transactions and the removal of their key, the mode.
\* saveToCloud and loadFromCloud are those of the render handleAuth was
\* called in: their user is the closure's, which is NULL (the dialog opens
\* only when signed out), so both return at once and nothing is awaited.
\* The effects of the next render then see the new user.
handleAuthOk ==
  /\ auth.pc = "fetch"
  /\ Len(effects) < MaxEffects
  /\ \E userData \in Users :
       LET c == auth.closure
           migrate == c.storageMode = "local" /\ Len(c.transactions) > 0
           requests == IF migrate THEN saveToCloud(c.user, c.transactions) ELSE {}
       IN  /\ user' = userData
           /\ lsUser' = userData
           /\ saves' = saves \cup requests
           /\ lsTransactions' = IF migrate THEN NULL ELSE lsTransactions
           /\ effects' = RunEffect(userData)
           /\ loads' = loads \cup loadFromCloud(c.user) \cup loadFromCloud(userData)
  /\ storageMode' = "cloud"
  /\ showAuth' = FALSE
  /\ auth' = AuthIdle
  /\ lastHandler' = "handleAuth"
  /\ UNCHANGED <<transactions, build, engineVars, advanceVars, loadVars, sseVars>>

\* handleAuth() after a response that is not ok, or no response.
handleAuthFailed ==
  /\ auth.pc = "fetch"
  /\ auth' = AuthIdle
  /\ lastHandler' = "handleAuth"
  /\ UNCHANGED <<user, storageMode, transactions, showAuth, lsTransactions, lsUser,
                 saves, engineVars, advanceVars, loadVars, syncVars, sseVars>>

\* A variant that keeps the persisted session key.
handleLogout_keepsSessionKey ==
  /\ user # NULL
  /\ user' = NULL
  /\ lsUser' = lsUser
  /\ IF loadFromLocalStorage
     THEN transactions' = lsTransactions /\ storageMode' = "local"
     ELSE transactions' = <<>> /\ storageMode' = "memory"
  /\ AfterSetUser(NULL)
  /\ lastHandler' = "handleLogout"
  /\ UNCHANGED <<showAuth, lsTransactions, auth, saves, build, engineVars,
                 advanceVars, loadVars, sseVars>>

\* handleLogout()
handleLogout ==
  /\ user # NULL
  /\ user' = NULL
  /\ lsUser' = NULL
  /\ IF loadFromLocalStorage
     THEN transactions' = lsTransactions /\ storageMode' = "local"
     ELSE transactions' = <<>> /\ storageMode' = "memory"
  /\ AfterSetUser(NULL)
  /\ lastHandler' = "handleLogout"
  /\ UNCHANGED <<showAuth, lsTransactions, auth, saves, build, engineVars,
                 advanceVars, loadVars, sseVars>>

\* updateUserCurrency(newCurrency), in App.tsx: a new user object with the
\* new default currency, persisted under the session key. The currency
\* itself is not part of the state here.
updateUserCurrency ==
  /\ build = "App.tsx"
  /\ user # NULL
  /\ Len(effects) < MaxEffects
  /\ lsUser' = user
  /\ AfterSetUser(user)
  /\ lastHandler' = "updateUserCurrency"
  /\ UNCHANGED <<user, storageMode, transactions, showAuth, lsTransactions, auth,
                 saves, build, engineVars, advanceVars, loadVars, sseVars>>

(***************************************************************************)
(* The server: the responses of GET /api/sse/:userId and the endpoints     *)
(* that read and write the Transaction collection.                         *)
(***************************************************************************)

\* GET /api/sse/:userId with a valid id: the headers, "Connected to SSE",
\* the change stream and the heartbeat interval. The route has no
\* authenticateToken.
SseConnect ==
  /\ \E c \in ChannelIds, userId \in Users :
       /\ ~sseChannels[c].open
       /\ sseChannels' = [sseChannels EXCEPT ![c] =
            [open |-> TRUE, userId |-> userId, pending |-> 0, last |-> "connected"]]
  /\ UNCHANGED <<engineVars, advanceVars, loadVars, clientVars, syncVars, lastPost>>

\* changeStream.on("change"): writes a transaction_update event.
SseChange ==
  /\ \E c \in ChannelIds :
       /\ sseChannels[c].open /\ sseChannels[c].pending > 0
       /\ sseChannels' = [sseChannels EXCEPT ![c].pending = @ - 1,
                                             ![c].last = "transaction_update"]
  /\ UNCHANGED <<engineVars, advanceVars, loadVars, clientVars, syncVars, lastPost>>

\* The heartbeat interval of a channel: writes a heartbeat event.
SseHeartbeat ==
  /\ \E c \in ChannelIds :
       /\ sseChannels[c].open
       /\ sseChannels' = [sseChannels EXCEPT ![c].last = "heartbeat"]
  /\ UNCHANGED <<engineVars, advanceVars, loadVars, clientVars, syncVars, lastPost>>

\* req.on("close"): closes the change stream, clears the heartbeat interval.
SseClose ==
  /\ \E c \in ChannelIds :
       /\ sseChannels[c].open
       /\ sseChannels' = [sseChannels EXCEPT ![c] = NoChannel]
  /\ UNCHANGED <<engineVars, advanceVars, loadVars, clientVars, syncVars, lastPost>>

\* A variant of the bulk replace without the store transaction: the delete
\* stays when the insert fails.
BulkReplace_deleteStays(stored, userId, list) ==
  {d \in stored : d.userId # userId}

\* The collection after a bulk replace that failed: validation rejects
\* before any write, and withTransaction aborts the delete with the insert.
BulkReplaceFailed(stored, userId, list) == stored

\* The collection after a bulk replace that committed.
BulkReplace(stored, userId, list) ==
  {d \in stored : d.userId # userId} \cup Docs(userId, list)

\* The unique index {userId, transactionId} admits the list.
UniqueIds(list) ==
  Cardinality({list[k].id : k \in DOMAIN list}) = Len(list)

\* POST /api/transactions: validation, then deleteMany and insertMany in one
\* store transaction; a rejected request leaves the collection as it was.
PostTransactions ==
  /\ \E req \in saves :
       /\ saves' = saves \ {req}
       /\ \/ /\ UniqueIds(req.transactions)
             /\ serverTransactions' =
                  BulkReplace(serverTransactions, req.userId, req.transactions)
             /\ Notify(Docs(req.userId, req.transactions), Remote(req.userId))
             /\ lastPost' = [status |-> 200, userId |-> req.userId]
          \/ /\ serverTransactions' =
                  BulkReplaceFailed(serverTransactions, req.userId, req.transactions)
             /\ lastPost' = [status |-> IF UniqueIds(req.transactions) THEN 500 ELSE 400,
                             userId |-> req.userId]
             /\ UNCHANGED sseChannels
  /\ UNCHANGED <<nodeEnv, now, recurringTransactions, uuidSeq, proc, faults, runLog,
                 materialized, advanced, advanceVars, loadVars, user, storageMode, transactions,
                 showAuth, lsTransactions, lsUser, auth, lastHandler, syncVars>>

\* The ids a caller of the single-transaction endpoints sends.
ApiIds == {101}

\* A variant without the unique index.
Duplicate_noIndex(stored, doc) == FALSE

\* transactionSchema.index({userId: 1, transactionId: 1}, {unique: true}):
\* save() of doc is rejected with error.code 11000.
Duplicate(stored, doc) ==
  \E d \in stored : d.userId = doc.userId /\ d.transactionId = doc.transactionId

\* POST /api/transactions/add: save() of one document, status 201; a second
\* document with the user's transactionId is rejected by the unique index,
\* status 400.
PostTransactionsAdd ==
  /\ \E userId \in Users, id \in ApiIds :
       LET doc == [userId |-> userId, transactionId |-> id, date |-> now]
       IN  IF Duplicate(serverTransactions, doc)
           THEN /\ UNCHANGED <<serverTransactions, sseChannels>>
                /\ lastPost' = [status |-> 400, userId |-> userId]
           ELSE /\ serverTransactions' = serverTransactions \cup {doc}
                /\ Notify({doc}, {})
                /\ lastPost' = [status |-> 201, userId |-> userId]
  /\ UNCHANGED <<nodeEnv, now, recurringTransactions, uuidSeq, proc, faults, runLog,
                 materialized, advanced, advanceVars, loadVars, clientVars, syncVars>>

\* DELETE /api/transactions/:transactionId: deleteOne({userId, transactionId});
\* 404 when nothing was deleted.
DeleteTransactionById ==
  /\ \E userId \in Users, id \in ApiIds :
       LET gone == {d \in Remote(userId) : d.transactionId = id}
       IN  /\ serverTransactions' = serverTransactions \ gone
           /\ IF gone = {} THEN UNCHANGED sseChannels ELSE Notify({}, gone)
  /\ UNCHANGED <<nodeEnv, now, recurringTransactions, uuidSeq, proc, faults, runLog,
                 materialized, advanced, advanceVars, loadVars, clientVars, syncVars, lastPost>>

\* The pages a find with limit can return: the sets that leave out k of the
\* documents. Which documents are the newest by createdAt is not part of
\* the state, so every choice is a possible page.
RECURSIVE LeaveOut(_, _)
LeaveOut(S, k) ==
  IF k = 0 THEN {S} ELSE UNION {LeaveOut(S \ {x}, k - 1) : x \in S}

\* Transaction.find(filter).sort({createdAt: -1}).skip(0).limit(limit)
Page(S, limit) ==
  IF Cardinality(S) <= limit THEN {S} ELSE LeaveOut(S, Cardinality(S) - limit)

\* The response of GET /api/transactions to a request without page and
\* limit, in the format of the client.
GetTransactions(userId) ==
  {{[id |-> d.transactionId, date |-> d.date] : d \in page} :
     page \in Page(Remote(userId), DefaultLimit)}

\* tx.sort((a, b) => new Date(b.date) - new Date(a.date)): newest first.
\* Transactions of one date keep the order of the response, which is taken
\* here to be by id.
RECURSIVE SortByDate(_)
SortByDate(S) ==
  IF S = {} THEN <<>>
  ELSE LET first == CHOOSE t \in S :
                      \A o \in S : t.date > o.date \/ (t.date = o.date /\ t.id >= o.id)
       IN  <<first>> \o SortByDate(S \ {first})

\* loadFromCloud() after a response that is ok: setTransactions, whatever
\* the user and the mode have become since the request.
loadFromCloudOk ==
  /\ \E req \in loads :
       /\ loads' = loads \ {req}
       /\ \E tx \in GetTransactions(req.user) : transactions' = SortByDate(tx)
  /\ lastHandler' = "loadFromCloud"
  /\ UNCHANGED <<user, storageMode, showAuth, lsTransactions, lsUser, auth, saves,
                 build, effects, engineVars, advanceVars, loadVars, sseVars>>

\* loadFromCloud() after a response that is not ok, or no response.
loadFromCloudFailed ==
  /\ \E req \in loads : loads' = loads \ {req}
  /\ lastHandler' = "loadFromCloud failed"
  /\ UNCHANGED <<user, storageMode, transactions, showAuth, lsTransactions, lsUser,
                 auth, saves, build, effects, engineVars, advanceVars, loadVars, sseVars>>

(***************************************************************************)
(* The callbacks of a run of the real-time effect.                         *)
(***************************************************************************)

\* The data of the events the server writes: the first is "Connected to
\* SSE", then heartbeat, transaction_update and error events.
SseEvents == {"heartbeat", "transaction_update", "error"}

\* event.data.includes(user.userId): only a transaction_update carries the
\* userId of the channel.
DataIncludesUser(event) == event = "transaction_update"

\* A variant that resets the counter on a transaction_update only.
CountAfterMessage_changeOnly(event, sseFailCount) ==
  IF event = "transaction_update" THEN 0 ELSE sseFailCount

\* eventSource.onmessage: sseFailCount = 0
CountAfterMessage(event, sseFailCount) == 0

\* A variant that gives up one failure late.
SwitchToPolling_oneLate(sseFailCount) == sseFailCount > MaxRetries

\* eventSource.onerror: if (sseFailCount >= maxRetries)
SwitchToPolling(sseFailCount) == sseFailCount >= MaxRetries

\* setTimeout(connectSSE, 5000 * sseFailCount) in App.tsx,
\* setTimeout(connectSSE, 5000) in App.jsx.
ReconnectDelay(sseFailCount) ==
  IF build = "App.tsx" THEN ReconnectBase * sseFailCount ELSE ReconnectBase

\* eventSource.onopen, which only App.tsx sets: sseFailCount = 0
SseOnOpen ==
  /\ \E i \in DOMAIN effects :
       /\ effects[i].es = "connecting"
       /\ effects' = [effects EXCEPT
            ![i].es = "open",
            ![i].sseFailCount = IF build = "App.tsx" THEN 0 ELSE @,
            ![i].lastEvent = "open"]
  /\ UNCHANGED <<engineVars, advanceVars, loadVars, clientVars, build, loads, sseVars>>

\* eventSource.onmessage on the run e of the effect: sseFailCount = 0.
onmessage(e, event) ==
  [e EXCEPT !.sseFailCount = CountAfterMessage(event, @), !.lastEvent = event]

\* eventSource.onerror on the run e of the effect: close, sseFailCount++,
\* then startPolling() or the reconnect timer.
onerror(e) ==
  LET count == e.sseFailCount + 1
  IN  [e EXCEPT
         !.es = "closed",
         !.sources = @ - 1,
         !.sseFailCount = count,
         !.polls = IF SwitchToPolling(count) THEN @ + 1 ELSE @,
         !.pollEvery = IF SwitchToPolling(count) THEN PollEvery ELSE @,
         !.sessionPolled = SwitchToPolling(count) \/ @,
         !.reconnects = IF SwitchToPolling(count) THEN @ ELSE @ + 1,
         !.reconnectIn = IF SwitchToPolling(count) THEN @ ELSE ReconnectDelay(count),
         !.lastEvent = "onerror"]

\* eventSource.onmessage: the first event of a connection is the
\* confirmation, the others follow it.
SseOnMessage ==
  /\ \E i \in DOMAIN effects :
       /\ effects[i].es = "open"
       /\ \E event \in IF effects[i].lastEvent = "open" THEN {"connected"} ELSE SseEvents :
            /\ effects' = [effects EXCEPT ![i] = onmessage(@, event)]
            /\ loads' = IF DataIncludesUser(event)
                        THEN loads \cup loadFromCloud(effects[i].user) ELSE loads
  /\ UNCHANGED <<engineVars, advanceVars, loadVars, clientVars, build, sseVars>>

\* eventSource.onerror of a connection that is connecting or open.
SseOnError ==
  /\ \E i \in DOMAIN effects :
       /\ effects[i].es \in {"connecting", "open"}
       /\ effects' = [effects EXCEPT ![i] = onerror(@)]
  /\ UNCHANGED <<engineVars, advanceVars, loadVars, clientVars, build, loads, sseVars>>

\* The reconnect timer fires: connectSSE().
ReconnectTimer ==
  /\ \E i \in DOMAIN effects :
       /\ effects[i].reconnects > 0
       /\ effects' = [effects EXCEPT
            ![i].reconnects = @ - 1,
            ![i].es = "connecting",
            ![i].sources = @ + 1,
            ![i].lastEvent = "connectSSE"]
  /\ UNCHANGED <<engineVars, advanceVars, loadVars, clientVars, build, loads, sseVars>>

\* The poll interval fires: loadFromCloud() of the render of the run.
PollTimer ==
  /\ \E i \in DOMAIN effects :
       /\ effects[i].polls > 0
       /\ loads' = loads \cup loadFromCloud(effects[i].user)
       /\ effects' = [effects EXCEPT ![i].lastEvent = "poll"]
  /\ UNCHANGED <<engineVars, advanceVars, loadVars, clientVars, build, sseVars>>

ClientInit ==
  /\ user = NULL
  /\ storageMode = "memory"
  /\ transactions = <<>>
  /\ showAuth = FALSE
  /\ lsTransactions = NULL
  /\ lsUser = NULL
  /\ auth = AuthIdle
  /\ saves = {}
  /\ lastHandler = "none"

SyncInit ==
  /\ build \in Builds
  /\ effects = <<>>
  /\ loads = {}

SseInit ==
  /\ sseChannels = [c \in ChannelIds |-> NoChannel]
  /\ lastPost = [status |-> 0, userId |-> NULL]

LoadInit ==
  /\ isDataLoading = FALSE
  /\ reloads = <<>>

Init == EngineInit /\ AdvanceIdle /\ ClientInit /\ SyncInit /\ build = "App.tsx" /\ SseInit /\ LoadInit

Next ==
  \/ AgendaJob
  \/ \E p \in AdminHandlers : AdminProcessRecurring(p)
  \/ \E p \in EntryPoints : Save(p)
  \/ \E p \in EntryPoints : Update(p)
  \/ \E p \in EntryPoints : StoreError(p)
  \/ CreateRecurring
  \/ Tick

Spec == Init /\ [][Next]_vars

InitAdvance ==
  /\ EngineInit /\ nodeEnv = "development" /\ AdvanceInit /\ ClientInit
  /\ SyncInit /\ build = "App.tsx" /\ SseInit /\ LoadInit

NextAdvance == Advance

SpecAdvance == InitAdvance /\ [][NextAdvance]_vars

\* The storage modes, in the TypeScript build.
InitClient ==
  /\ EngineInit /\ nodeEnv = "development" /\ AdvanceIdle /\ ClientInit
  /\ SyncInit /\ build = "App.tsx" /\ SseInit /\ LoadInit

NextClient ==
  \/ loadInitialData
  \/ switchToLocalStorage
  \/ addTransaction
  \/ deleteTransaction
  \/ PostTransactions
  \/ OpenAuth
  \/ handleAuth
  \/ handleAuthOk
  \/ handleAuthFailed
  \/ handleLogout
  \/ updateUserCurrency
  \/ loadFromCloudOk
  \/ loadFromCloudFailed

SpecClient == InitClient /\ [][NextClient]_vars

\* The real-time effect with sign-in, sign-out and the preference update,
\* in both builds.
InitSync ==
  EngineInit /\ nodeEnv = "development" /\ AdvanceIdle /\ ClientInit /\ SyncInit /\ SseInit /\ LoadInit

NextSync ==
  \/ OpenAuth
  \/ handleAuth
  \/ handleAuthOk
  \/ handleAuthFailed
  \/ handleLogout
  \/ updateUserCurrency
  \/ SseOnOpen
  \/ SseOnMessage
  \/ SseOnError
  \/ ReconnectTimer
  \/ PollTimer
  \/ loadFromCloudOk
  \/ loadFromCloudFailed

SpecSync == InitSync /\ [][NextSync]_vars

\* A reload by a signed-in client, for every number of stored transactions.
MaxStored == 51          \* transactions of the user in the remote store

\* What a bulk replace of n transactions leaves in the collection.
StoredSet(userId, n) ==
  {[userId |-> userId, transactionId |-> i, date |-> StartDay + (i % 3)] : i \in 1..n}

InitReload ==
  /\ nodeEnv = "development" /\ now = StartDay + 3
  /\ recurringTransactions = <<>>
  /\ \E n \in 0..MaxStored :
       serverTransactions = StoredSet("u1", n) /\ uuidSeq = n
  /\ proc = [p \in EntryPoints |-> Idle]
  /\ faults = 0 /\ runLog = <<>> /\ materialized = {} /\ advanced = {}
  /\ AdvanceIdle
  /\ user = "u1" /\ lsUser = "u1" /\ storageMode = "cloud"
  /\ transactions = <<>> /\ lsTransactions = NULL
  /\ showAuth = FALSE /\ auth = AuthIdle /\ saves = {}
  /\ lastHandler = "handleAuth"
  /\ build \in Builds
  /\ effects = <<[NewEffect("u1", 1, FALSE) EXCEPT !.es = "open",
                                                  !.lastEvent = "connected"]>>
  /\ loads = {}
  /\ SseInit /\ LoadInit

NextReload ==
  \/ SseOnMessage
  \/ loadFromCloudOk
  \/ loadFromCloudFailed

SpecReload == InitReload /\ [][NextReload]_vars

\* The bulk replace, for every stored set and every submitted list.
MaxList == 2             \* transactions in a submitted list

BulkTransactions == [id : {201, 202}, date : {StartDay, StartDay + 1}]

RECURSIVE ListsUpTo(_)
ListsUpTo(n) ==
  IF n = 0 THEN {<<>>}
  ELSE ListsUpTo(n - 1) \cup
       {Append(l, t) : l \in {x \in ListsUpTo(n - 1) : Len(x) = n - 1},
                       t \in BulkTransactions}

\* The document of another user, which no request of Users may touch.
OtherUsersDocs == {[userId |-> "u2", transactionId |-> 201, date |-> StartDay]}

InitBulk ==
  /\ nodeEnv = "development" /\ now = StartDay + 3
  /\ recurringTransactions = <<>> /\ uuidSeq = 0
  /\ \E l \in {x \in ListsUpTo(MaxList) : UniqueIds(x)}, userId \in Users :
       serverTransactions = Docs(userId, l) \cup OtherUsersDocs
  /\ proc = [p \in EntryPoints |-> Idle]
  /\ faults = 0 /\ runLog = <<>> /\ materialized = {} /\ advanced = {}
  /\ AdvanceIdle
  /\ user = NULL /\ lsUser = NULL /\ storageMode = "memory"
  /\ transactions = <<>> /\ lsTransactions = NULL
  /\ showAuth = FALSE /\ auth = AuthIdle
  /\ \E l \in ListsUpTo(MaxList), userId \in Users :
       saves = {[userId |-> userId, transactions |-> l]}
  /\ lastHandler = "none"
  /\ SyncInit /\ build = "App.tsx"
  /\ SseInit /\ LoadInit

NextBulk == PostTransactions

SpecBulk == InitBulk /\ [][NextBulk]_vars

\* The writers of the Transaction collection with channels open: a
\* signed-in client, the single-transaction endpoints and the engine.
InitNotify ==
  /\ nodeEnv = "production" /\ now = StartDay + 1
  /\ \E userId \in Users :
       recurringTransactions =
         <<[userId |-> userId, frequency |-> "daily", startDate |-> StartDay,
            endDate |-> NoDate,
            nextDueDate |-> calculateNextDueDate(StartDay, "daily"),
            isActive |-> TRUE, lastProcessed |-> NoDate]>>
  /\ serverTransactions = {} /\ uuidSeq = 0
  /\ proc = [p \in EntryPoints |-> Idle]
  /\ faults = 0 /\ runLog = <<>> /\ materialized = {} /\ advanced = {}
  /\ AdvanceIdle
  /\ user = "u1" /\ lsUser = "u1" /\ storageMode = "cloud"
  /\ transactions = <<>> /\ lsTransactions = NULL
  /\ showAuth = FALSE /\ auth = AuthIdle /\ saves = {}
  /\ lastHandler = "handleAuth"
  /\ build = "App.tsx"
  /\ effects = <<[NewEffect("u1", 1, FALSE) EXCEPT !.es = "open",
                                                  !.lastEvent = "connected"]>>
  /\ loads = {}
  /\ SseInit /\ LoadInit

NextNotify ==
  \/ SseConnect
  \/ SseChange
  \/ SseHeartbeat
  \/ SseClose
  \/ PostTransactionsAdd
  \/ DeleteTransactionById
  \/ addTransaction
  \/ deleteTransaction
  \/ PostTransactions
  \/ AgendaJob
  \/ Save(AgendaWorker)
  \/ Update(AgendaWorker)

SpecNotify == InitNotify /\ [][NextNotify]_vars

(***************************************************************************)
(* A session and its push channel end to end: what the handler of          *)
(* GET /api/sse/:userId writes on the response is what the session's       *)
(* eventSource.onmessage receives, and a connection that fails is closed   *)
(* on both sides.                                                          *)
(***************************************************************************)

\* The response that serves the EventSource of the run i of the effect.
ChannelOf(i) == i

\* The request of a connecting EventSource is answered: the handler of
\* GET /api/sse/:userId opens its change stream and eventSource.onopen runs.
\* The change stream starts at the time of the request: it has no resume
\* token, so writes committed before are not handed to it.
SseAccept ==
  /\ \E i \in DOMAIN effects :
       /\ effects[i].es = "connecting"
       /\ ChannelOf(i) \in ChannelIds
       /\ ~sseChannels[ChannelOf(i)].open
       /\ sseChannels' = [sseChannels EXCEPT ![ChannelOf(i)] =
            [open |-> TRUE, userId |-> effects[i].user, pending |-> 0,
             last |-> "connected"]]
       /\ effects' = [effects EXCEPT
            ![i].es = "open",
            ![i].sseFailCount = IF build = "App.tsx" THEN 0 ELSE @,
            ![i].lastEvent = "open"]
  /\ UNCHANGED <<engineVars, advanceVars, loadVars, clientVars, build, loads, lastPost>>

\* An event written on the response reaches eventSource.onmessage: first
\* "Connected to SSE", then heartbeats and one transaction_update for each
\* change event of the change stream.
SseDeliver(event) ==
  /\ \E i \in DOMAIN effects :
       /\ effects[i].es = "open"
       /\ sseChannels[ChannelOf(i)].open
       /\ IF effects[i].lastEvent = "open"
          THEN event = "connected"
          ELSE \/ event = "heartbeat"
               \/ event = "transaction_update" /\ sseChannels[ChannelOf(i)].pending > 0
       /\ sseChannels' = [sseChannels EXCEPT
            ![ChannelOf(i)].pending = IF event = "transaction_update" THEN @ - 1 ELSE @,
            ![ChannelOf(i)].last = event]
       /\ effects' = [effects EXCEPT ![i] = onmessage(@, event)]
       /\ loads' = IF DataIncludesUser(event)
                   THEN loads \cup loadFromCloud(effects[i].user) ELSE loads
  /\ UNCHANGED <<engineVars, advanceVars, loadVars, clientVars, build, lastPost>>

\* The connection fails: eventSource.onerror in the session, req.on("close")
\* in the server, which closes the change stream with the events it holds.
SseDrop ==
  /\ \E i \in DOMAIN effects :
       /\ effects[i].es \in {"connecting", "open"}
       /\ effects' = [effects EXCEPT ![i] = onerror(@)]
       /\ sseChannels' = [sseChannels EXCEPT ![ChannelOf(i)] = NoChannel]
  /\ UNCHANGED <<engineVars, advanceVars, loadVars, clientVars, build, loads, lastPost>>

\* A session in remote mode just after its page has loaded, and the other
\* writers of its user's transactions: the single-transaction endpoints,
\* as another session or an API client calls them, and the engine.
InitConsistency ==
  /\ nodeEnv = "production" /\ now = StartDay + 1
  /\ \E userId \in Users :
       recurringTransactions =
         <<[userId |-> userId, frequency |-> "daily", startDate |-> StartDay,
            endDate |-> NoDate,
            nextDueDate |-> calculateNextDueDate(StartDay, "daily"),
            isActive |-> TRUE, lastProcessed |-> NoDate]>>
  /\ serverTransactions = {} /\ uuidSeq = 0
  /\ proc = [p \in EntryPoints |-> Idle]
  /\ faults = 0 /\ runLog = <<>> /\ materialized = {} /\ advanced = {}
  /\ AdvanceIdle
  /\ user = "u1" /\ lsUser = "u1" /\ storageMode = "cloud"
  /\ transactions = <<>> /\ lsTransactions = NULL
  /\ showAuth = FALSE /\ auth = AuthIdle /\ saves = {}
  /\ lastHandler = "loadInitialData"
  /\ build \in Builds
  /\ effects = <<NewEffect("u1", 1, FALSE)>>
  /\ loads = loadFromCloud("u1")
  /\ SseInit /\ LoadInit

NextConsistency ==
  \/ SseAccept
  \/ \E event \in {"connected", "heartbeat", "transaction_update"} : SseDeliver(event)
  \/ SseDrop
  \/ ReconnectTimer
  \/ PollTimer
  \/ loadFromCloudOk
  \/ PostTransactionsAdd
  \/ DeleteTransactionById
  \/ AgendaJob
  \/ Save(AgendaWorker)
  \/ Update(AgendaWorker)

\* Timers fire, events written on an open response arrive, requests are
\* answered and succeed, and the connection does not go on failing forever.
SpecConsistency ==
  /\ InitConsistency /\ [][NextConsistency]_vars
  /\ <>[][~SseDrop]_vars
  /\ WF_vars(SseAccept)
  /\ WF_vars(SseDeliver("connected"))
  /\ WF_vars(SseDeliver("transaction_update"))
  /\ WF_vars(ReconnectTimer)
  /\ WF_vars(PollTimer)
  /\ WF_vars(loadFromCloudOk)

(***************************************************************************)
(* loadFromCloud step by step: the call up to its await, the answer of     *)
(* GET /api/transactions, and the rest of the call once the response has   *)
(* arrived. The responses of two calls arrive in any order. (The set       *)
(* `loads` above holds the requests only, answered in one step.)           *)
(***************************************************************************)
MaxReloads == 2          \* calls of loadFromCloud followed step by step

\* loadFromCloud() up to `await fetch(...)`: `if (!user) return;`,
\* setIsDataLoading(true) and the GET request. stored is history: the
\* user's documents at the time of the call.
loadFromCloudCall(closureUser) ==
  IF closureUser = NULL
  THEN UNCHANGED loadVars
  ELSE /\ isDataLoading' = TRUE
       /\ reloads' = Append(reloads,
            [user |-> closureUser, pc |-> "request",
             stored |-> Remote(closureUser), tx |-> {}])

\* eventSource.onmessage with a transaction_update: loadFromCloud().
SseOnUpdate ==
  /\ Len(reloads) < MaxReloads
  /\ \E i \in DOMAIN effects :
       /\ effects[i].es = "open" /\ effects[i].lastEvent # "open"
       /\ effects' = [effects EXCEPT ![i] = onmessage(@, "transaction_update")]
       /\ loadFromCloudCall(effects[i].user)
  /\ UNCHANGED <<engineVars, advanceVars, clientVars, build, loads, sseVars>>

\* GET /api/transactions answers the request of a call.
GetTransactionsAnswered ==
  /\ \E k \in DOMAIN reloads :
       /\ reloads[k].pc = "request"
       /\ \E tx \in GetTransactions(reloads[k].user) :
            reloads' = [reloads EXCEPT ![k].pc = "response", ![k].tx = tx]
  /\ UNCHANGED <<isDataLoading, engineVars, advanceVars, clientVars, syncVars, sseVars>>

\* loadFromCloud() after the await, the response being ok: setTransactions
\* of the sorted response, then setIsDataLoading(false).
loadFromCloudResolved ==
  /\ \E k \in DOMAIN reloads :
       /\ reloads[k].pc = "response"
       /\ transactions' = SortByDate(reloads[k].tx)
       /\ reloads' = [reloads EXCEPT ![k].pc = "done"]
  /\ isDataLoading' = FALSE
  /\ lastHandler' = "loadFromCloud"
  /\ UNCHANGED <<user, storageMode, showAuth, lsTransactions, lsUser, auth, saves,
                 engineVars, advanceVars, syncVars, sseVars>>

\* loadFromCloud() after the await, fetch having rejected or the response
\* being not ok: handleError, then setIsDataLoading(false).
loadFromCloudRejected ==
  /\ \E k \in DOMAIN reloads :
       /\ reloads[k].pc = "request"
       /\ reloads' = [reloads EXCEPT ![k].pc = "failed"]
  /\ isDataLoading' = FALSE
  /\ lastHandler' = "loadFromCloud failed"
  /\ UNCHANGED <<user, storageMode, transactions, showAuth, lsTransactions, lsUser,
                 auth, saves, engineVars, advanceVars, syncVars, sseVars>>

\* The Add Transaction button: onClick={addTransaction} disabled={isDataLoading}
AddButton == ~isDataLoading /\ addTransaction

\* onKeyDown of the Add New Transaction form: Enter calls addTransaction().
EnterKey == addTransaction

\* A signed-in session with its push channel open, and another writer.
InitReloads ==
  /\ nodeEnv = "production" /\ now = StartDay + 1
  /\ recurringTransactions = <<>>
  /\ serverTransactions = {} /\ uuidSeq = 0
  /\ proc = [p \in EntryPoints |-> Idle]
  /\ faults = 0 /\ runLog = <<>> /\ materialized = {} /\ advanced = {}
  /\ AdvanceIdle
  /\ user = "u1" /\ lsUser = "u1" /\ storageMode = "cloud"
  /\ transactions = <<>> /\ lsTransactions = NULL
  /\ showAuth = FALSE /\ auth = AuthIdle /\ saves = {}
  /\ lastHandler = "handleAuth"
  /\ build = "App.tsx"
  /\ effects = <<[NewEffect("u1", 1, FALSE) EXCEPT !.es = "open",
                                                  !.lastEvent = "connected"]>>
  /\ loads = {}
  /\ SseInit /\ LoadInit

NextReloads ==
  \/ SseOnUpdate
  \/ GetTransactionsAnswered
  \/ loadFromCloudResolved
  \/ loadFromCloudRejected
  \/ AddButton
  \/ EnterKey
  \/ PostTransactions
  \/ PostTransactionsAdd

SpecReloads == InitReloads /\ [][NextReloads]_vars

(***************************************************************************)
(* The endpoints that edit and deactivate a rule, with the engine.         *)
(***************************************************************************)

\* A request body of PUT /api/recurring-transactions/:recurringId: each
\* field is absent (<<>>) or present with one value.
NoUpdates == [frequency |-> <<>>, startDate |-> <<>>, endDate |-> <<>>]

\* The request bodies that are tried: the form sent with the frequency
\* "monthly" (for a monthly rule, the frequency it has), and a new end date.
PutBodies ==
  {[NoUpdates EXCEPT !.frequency = <<"monthly">>],
   [NoUpdates EXCEPT !.endDate = <<DaysFromCivil(2024, 1, 15)>>]}

\* The document after {$set: updates}: when the body has a frequency or a
\* start date, updates.nextDueDate = calculateNextDueDate(startDate, frequency)
\* with the start date of the body or of the existing document.
ApplyUpdates(existing, updates) ==
  LET frequency == IF updates.frequency # <<>> THEN updates.frequency[1]
                   ELSE existing.frequency
      startDate == IF updates.startDate # <<>> THEN updates.startDate[1]
                   ELSE existing.startDate
  IN  [existing EXCEPT
         !.frequency = frequency,
         !.startDate = startDate,
         !.endDate = IF updates.endDate # <<>> THEN updates.endDate[1] ELSE @,
         !.nextDueDate = IF updates.frequency # <<>> \/ updates.startDate # <<>>
                         THEN calculateNextDueDate(startDate, frequency) ELSE @]

\* PUT /api/recurring-transactions/:recurringId by the owner of the rule
\* (for another user's rule matchedCount is 0: status 404, no change).
PutRecurring ==
  /\ \E userId \in Users, recurringId \in RuleIds, updates \in PutBodies :
       /\ recurringTransactions[recurringId].userId = userId
       /\ recurringTransactions' =
            [recurringTransactions EXCEPT ![recurringId] = ApplyUpdates(@, updates)]
  /\ UNCHANGED <<nodeEnv, now, serverTransactions, uuidSeq, proc, faults,
                 runLog, materialized, advanced>>
  /\ UNCHANGED <<advanceVars, loadVars, clientVars, syncVars, sseVars>>

\* DELETE /api/recurring-transactions/:recurringId by the owner of the
\* rule: updateOne({userId, recurringId}, {$set: {isActive: false}}).
DeleteRecurring ==
  /\ \E userId \in Users, recurringId \in RuleIds :
       /\ recurringTransactions[recurringId].userId = userId
       /\ recurringTransactions' =
            [recurringTransactions EXCEPT ![recurringId].isActive = FALSE]
  /\ UNCHANGED <<nodeEnv, now, serverTransactions, uuidSeq, proc, faults,
                 runLog, materialized, advanced>>
  /\ UNCHANGED <<advanceVars, loadVars, clientVars, syncVars, sseVars>>

\* The production server, where the Agenda job is the only caller of the
\* engine, with the rules of RuleInputs created.
InitRules ==
  /\ nodeEnv = "production" /\ now = StartDay
  /\ \E q \in Orderings(RuleInputs), userId \in Users :
       recurringTransactions =
         [k \in DOMAIN q |->
            [userId |-> userId, frequency |-> q[k].frequency,
             startDate |-> q[k].startDate, endDate |-> q[k].endDate,
             nextDueDate |-> calculateNextDueDate(q[k].startDate, q[k].frequency),
             isActive |-> TRUE, lastProcessed |-> NoDate]]
  /\ serverTransactions = {} /\ uuidSeq = 0
  /\ proc = [p \in EntryPoints |-> Idle]
  /\ faults = 0 /\ runLog = <<>> /\ materialized = {} /\ advanced = {}
  /\ AdvanceIdle /\ ClientInit
  /\ SyncInit /\ build = "App.tsx" /\ SseInit /\ LoadInit

NextRules ==
  \/ AgendaJob
  \/ Save(AgendaWorker)
  \/ Update(AgendaWorker)
  \/ PutRecurring
  \/ DeleteRecurring
  \/ Tick

SpecRules == InitRules /\ [][NextRules]_vars

(***************************************************************************)
(* The writers of the Transaction collection and its unique index.         *)
(***************************************************************************)

\* Another user's document with the id the callers of the single-transaction
\* endpoints send, and an older document of the caller with that id.
SameIdOfAnotherUser == [userId |-> "u2", transactionId |-> 101, date |-> StartDay]
SameIdOfTheCaller == [userId |-> "u1", transactionId |-> 101, date |-> StartDay]

InitStore ==
  /\ nodeEnv = "production" /\ now = StartDay + 1
  /\ \E userId \in Users :
       recurringTransactions =
         <<[userId |-> userId, frequency |-> "daily", startDate |-> StartDay,
            endDate |-> NoDate,
            nextDueDate |-> calculateNextDueDate(StartDay, "daily"),
            isActive |-> TRUE, lastProcessed |-> NoDate]>>
  /\ serverTransactions \in {{SameIdOfAnotherUser},
                             {SameIdOfAnotherUser, SameIdOfTheCaller}}
  /\ uuidSeq = 0
  /\ proc = [p \in EntryPoints |-> Idle]
  /\ faults = 0 /\ runLog = <<>> /\ materialized = {} /\ advanced = {}
  /\ AdvanceIdle
  /\ user = "u1" /\ lsUser = "u1" /\ storageMode = "cloud"
  /\ transactions = <<>> /\ lsTransactions = NULL
  /\ showAuth = FALSE /\ auth = AuthIdle /\ saves = {}
  /\ lastHandler = "handleAuth"
  /\ build = "App.tsx"
  /\ effects = <<[NewEffect("u1", 1, FALSE) EXCEPT !.es = "open",
                                                  !.lastEvent = "connected"]>>
  /\ loads = {}
  /\ SseInit /\ LoadInit

NextStore ==
  \/ PostTransactionsAdd
  \/ DeleteTransactionById
  \/ addTransaction
  \/ deleteTransaction
  \/ PostTransactions
  \/ AgendaJob
  \/ Save(AgendaWorker)
  \/ Update(AgendaWorker)

SpecStore == InitStore /\ [][NextStore]_vars

(***************************************************************************)
(* One session in remote mode that reloads and then adds a transaction,    *)
(* for several numbers of stored transactions.                             *)
(***************************************************************************)

\* The user's documents before the session starts: n transactions that
\* an earlier session stored.
StoredBefore(userId, n) ==
  {[userId |-> userId, transactionId |-> 1000 + i, date |-> StartDay + (i % 3)] :
     i \in 1..n}

InitAddRemote ==
  /\ nodeEnv = "production" /\ now = StartDay + 3
  /\ recurringTransactions = <<>>
  /\ \E n \in {0, 1, MaxStored - 1, MaxStored} :
       serverTransactions = StoredBefore("u1", n)
  /\ uuidSeq = 0
  /\ proc = [p \in EntryPoints |-> Idle]
  /\ faults = 0 /\ runLog = <<>> /\ materialized = {} /\ advanced = {}
  /\ AdvanceIdle
  /\ user = "u1" /\ lsUser = "u1" /\ storageMode = "cloud"
  /\ transactions = <<>> /\ lsTransactions = NULL
  /\ showAuth = FALSE /\ auth = AuthIdle /\ saves = {}
  /\ lastHandler = "loadInitialData"
  /\ build = "App.tsx"
  /\ effects = <<[NewEffect("u1", 1, FALSE) EXCEPT !.es = "open",
                                                  !.lastEvent = "connected"]>>
  /\ loads = loadFromCloud("u1")
  /\ SseInit /\ LoadInit

NextAddRemote ==
  \/ loadFromCloudOk
  \/ addTransaction
  \/ PostTransactions

SpecAddRemote == InitAddRemote /\ [][NextAddRemote]_vars

(***************************************************************************)
(* Properties of the recurrence engine.                                    *)
(***************************************************************************)
Runs == DOMAIN runLog
Finished(run) == runLog[run].outcome # "running"
MaterializedBy(run, r) == {m \in materialized : m.run = run /\ m.rule = r}
AdvancedBy(run, r) == {a \in advanced : a.run = run /\ a.rule = r}

\* One step of a frequency from a date whose day of the month every month
\* has: the day count the calendar gives, stated without calculateNextDueDate.
OneStepLater(from, frequency) ==
  LET c == CivilFromDays(from)
  IN  CASE frequency = "daily"   -> from + 1
        [] frequency = "weekly"  -> from + 7
        [] frequency = "monthly" -> from + DaysInMonth(c.y, c.m)
        [] frequency = "yearly"  ->
             from + (IF IsLeapYear(IF c.m <= 2 THEN c.y ELSE c.y + 1) THEN 366 ELSE 365)

\* C1: a run that ends without a store error has, for every rule it selected
\* as due, saved exactly one Transaction, dated with the run's now, and
\* written nextDueDate exactly once, one frequency step after the nextDueDate
\* it selected the rule with, however far that lies behind now; no run saves
\* or writes more than once per rule.
C1_OneTransactionOneStep ==
  \A run \in Runs : \A r \in RuleIds :
    /\ Cardinality(MaterializedBy(run, r)) <= 1
    /\ Cardinality(AdvancedBy(run, r)) <= 1
    /\ \A m \in MaterializedBy(run, r) : m.date = runLog[run].now
    /\ \A a \in AdvancedBy(run, r) :
         /\ a.to = OneStepLater(a.from, recurringTransactions[r].frequency)
         /\ \E m \in MaterializedBy(run, r) : m.cursor = a.from
    /\ (runLog[run].outcome = "ok" /\ r \in runLog[run].selected) =>
         /\ Cardinality(MaterializedBy(run, r)) = 1
         /\ Cardinality(AdvancedBy(run, r)) = 1

\* C1 witness: the monthly rule due 2024-01-01, processed at 2024-02-15.
C1_Witness ==
  \E run \in Runs : \E r \in RuleIds :
    /\ runLog[run].outcome = "ok"
    /\ runLog[run].now = DaysFromCivil(2024, 2, 15)
    /\ recurringTransactions[r].frequency = "monthly"
    /\ \E m \in MaterializedBy(run, r) : m.date = DaysFromCivil(2024, 2, 15)
    /\ \E a \in AdvancedBy(run, r) :
         a.from = DaysFromCivil(2024, 1, 1) /\ a.to = DaysFromCivil(2024, 2, 1)

\* C2: after a run has ended, with or without a store error, every rule has
\* from that run either both a Transaction and an advanced nextDueDate, or
\* neither.
C2_CreateAndAdvanceTogether ==
  \A run \in Runs : \A r \in RuleIds :
    Finished(run) => (MaterializedBy(run, r) = {} <=> AdvancedBy(run, r) = {})

\* C3: when a run has ended, every rule it selected as due, other than the
\* one whose processing failed, has been materialized and advanced by it.
C3_FailureSparesOtherRules ==
  \A run \in Runs : \A r \in runLog[run].selected :
    (Finished(run) /\ r # runLog[run].failedRule) =>
      (MaterializedBy(run, r) # {} /\ AdvancedBy(run, r) # {})

\* C4: at most one execution of processRecurringTransactions is active at
\* any time, over the Agenda job and the manual endpoint together.
C4_AtMostOneExecution == Cardinality(Active) <= 1

\* Two calls in a row with the same now: the second begins after the first
\* has ended, no other call overlaps either, and both have ended.
InARow(i, j) ==
  /\ j = i + 1
  /\ Finished(i) /\ Finished(j)
  /\ ~runLog[i].overlapped /\ ~runLog[j].overlapped
  /\ runLog[i].now = runLog[j].now

\* C5 as stated: two calls in a row with the same now materialize at most one
\* Transaction per rule in total.
C5_TwiceSameNowAtMostOne ==
  \A i, j \in Runs : \A r \in RuleIds :
    InARow(i, j) =>
      Cardinality(MaterializedBy(i, r) \cup MaterializedBy(j, r)) <= 1

\* C5 amended: two calls in a row with the same now materialize at most one
\* Transaction in total for every rule whose nextDueDate is later than now
\* when the first call has ended.
C5_TwiceSameNowAtMostOneOncePastNow ==
  \A i, j \in Runs : \A r \in RuleIds :
    (InARow(i, j) /\ r \in DOMAIN runLog[i].endCursor
       /\ runLog[i].endCursor[r] > runLog[i].now) =>
      Cardinality(MaterializedBy(i, r) \cup MaterializedBy(j, r)) <= 1

\* C5 witness: the first of two calls in a row materialized a rule and left
\* its nextDueDate later than now.
C5_Witness ==
  \E i, j \in Runs : \E r \in RuleIds :
    /\ InARow(i, j)
    /\ r \in DOMAIN runLog[i].endCursor
    /\ runLog[i].endCursor[r] > runLog[i].now
    /\ MaterializedBy(i, r) # {}
    /\ runLog[j].outcome = "ok"

\* C6 as stated: while no run is in progress, each rule's nextDueDate is at
\* or after the date of every Transaction materialized from it.
C6_CursorNotBeforeLastTransaction ==
  Active = {} =>
    \A m \in materialized : recurringTransactions[m.rule].nextDueDate >= m.date

\* C6 amended: every Transaction materialized from a rule is dated at or
\* after the nextDueDate the rule was selected with, and the nextDueDate
\* written after it is later than that value.
C6_TransactionNotBeforeItsDueDate ==
  /\ \A m \in materialized : m.date >= m.cursor
  /\ \A a \in advanced : a.to > a.from

\* C6 witness: a rule several cycles overdue has been processed and its
\* nextDueDate is still before the date of the Transaction.
C6_Witness ==
  /\ Active = {}
  /\ \E m \in materialized : \E a \in advanced :
       /\ a.rule = m.rule /\ a.run = m.run
       /\ recurringTransactions[m.rule].nextDueDate = a.to
       /\ a.to < m.date

(***************************************************************************)
(* Properties of calculateNextDueDate.                                     *)
(***************************************************************************)
Clamped(y, m, d) == IF d <= DaysInMonth(y, m) THEN d ELSE DaysInMonth(y, m)

\* C7: daily adds 1 day, weekly 7 days, yearly gives the same month and day
\* one year later, monthly gives the same day of the following calendar
\* month, clamped to that month's last day.
C7_CalendarAware ==
  advResult # <<>> =>
    LET c == CivilFromDays(advInput.date)
        r == CivilFromDays(advResult[1])
        ny == IF c.m = 12 THEN c.y + 1 ELSE c.y
        nm == IF c.m = 12 THEN 1 ELSE c.m + 1
    IN  CASE advInput.frequency = "daily"   -> advResult[1] = advInput.date + 1
          [] advInput.frequency = "weekly"  -> advResult[1] = advInput.date + 7
          [] advInput.frequency = "monthly" ->
               r = [y |-> ny, m |-> nm, d |-> Clamped(ny, nm, c.d)]
          [] advInput.frequency = "yearly"  ->
               r = [y |-> c.y + 1, m |-> c.m, d |-> Clamped(c.y + 1, c.m, c.d)]

\* C8: advance(advance(d, F), F) > advance(d, F) > d.
C8_StrictlyIncreasing ==
  advResult # <<>> => (advResult[2] > advResult[1] /\ advResult[1] > advInput.date)

\* C8 witness: a monthly step from the 31st of January has been taken twice.
C8_Witness ==
  /\ advResult # <<>>
  /\ advInput.frequency = "monthly"
  /\ CivilFromDays(advInput.date).m = 1 /\ CivilFromDays(advInput.date).d = 31

(***************************************************************************)
(* Properties of the sign-in from local mode.                              *)
(***************************************************************************)

\* The user's documents after the step.
RemoteAfter(userId) == {d \in serverTransactions' : d.userId = userId}

\* The step of handleAuth that completes a sign-in begun in local mode with
\* at least one transaction.
LoginFromLocalCompletes ==
  /\ auth.pc = "fetch" /\ auth'.pc = "idle" /\ user' # NULL
  /\ auth.closure.storageMode = "local"
  /\ Len(auth.closure.transactions) > 0

\* C9: when a sign-in begun in local mode with at least one transaction
\* completes, the user's remote store holds exactly the local set (no upload
\* is still on its way), the local transactions key is removed and the mode
\* is cloud.
C9_LoginUploadsLocalSet ==
  [][LoginFromLocalCompletes =>
       /\ RemoteAfter(user') = Docs(user', auth.closure.transactions)
       /\ saves' = {}
       /\ lsTransactions' = NULL
       /\ storageMode' = "cloud"]_vars

\* C10: every step of a sign-in leaves each transaction of the local
\* transactions key in that key or in the user's remote store.
C10_LoginKeepsCommittedData ==
  [][(auth.pc = "fetch" /\ auth'.pc = "idle" /\ lsTransactions # NULL) =>
       \A t \in Range(lsTransactions) :
         \/ lsTransactions' # NULL /\ t \in Range(lsTransactions')
         \/ user' # NULL /\ \E d \in RemoteAfter(user') : d.transactionId = t.id]_vars

(***************************************************************************)
(* Properties of local mode and of sign-out.                               *)
(***************************************************************************)

\* The step is a call of addTransaction or deleteTransaction.
AddsOrDeletes ==
  /\ lastHandler' \in {"addTransaction", "deleteTransaction"}
  /\ transactions' # transactions

\* C11: in local mode, when addTransaction or deleteTransaction has run, the
\* array under the local transactions key equals the transactions in memory.
C11_LocalKeyEqualsMemory ==
  [][(storageMode = "local" /\ AddsOrDeletes) => lsTransactions' = transactions']_vars

\* C12: a sign-out clears the user and the session key; when the local
\* transactions key holds an array the mode becomes local and the
\* transactions in memory are that array, else the mode becomes memory and
\* the transactions in memory are empty.
C12_LogoutFallsBack ==
  [][(user # NULL /\ user' = NULL) =>
       /\ lsUser' = NULL
       /\ lsTransactions' = lsTransactions
       /\ IF lsTransactions # NULL
          THEN storageMode' = "local" /\ transactions' = lsTransactions
          ELSE storageMode' = "memory" /\ transactions' = <<>>]_vars

\* A sign-out has fallen back to local mode with a transaction in the key.
C12_Witness ==
  /\ lastHandler = "handleLogout"
  /\ user = NULL /\ lsUser = NULL
  /\ storageMode = "local"
  /\ lsTransactions # NULL
  /\ transactions = lsTransactions
  /\ Len(transactions) > 0

(***************************************************************************)
(* Properties of the real-time effect.                                     *)
(***************************************************************************)

\* The run i of the effect exists before and after the step and the step
\* is a callback of that run.
CallbackOf(i) ==
  /\ i \in DOMAIN effects /\ i \in DOMAIN effects'
  /\ effects'[i] # effects[i]
  /\ effects'[i].cleaned = effects[i].cleaned

RECURSIVE SumOf(_, _)
SumOf(f, S) ==
  IF S = {} THEN 0
  ELSE LET i == CHOOSE x \in S : TRUE IN f[i] + SumOf(f, S \ {i})

Sessions == {effects[i].session : i \in DOMAIN effects}
RunsOf(s) == {i \in DOMAIN effects : effects[i].session = s}
OpenSources(s) == SumOf([i \in DOMAIN effects |-> effects[i].sources], RunsOf(s))
PendingReconnects(s) == SumOf([i \in DOMAIN effects |-> effects[i].reconnects], RunsOf(s))
RunningPolls(s) == SumOf([i \in DOMAIN effects |-> effects[i].polls], RunsOf(s))

\* C13: an error that is the third failure in a row starts one poll of
\* 10 seconds and no reconnect, and a run that polls never connects again;
\* an error that is the first or second failure in a row schedules one
\* reconnect and starts no poll.
C13_ThreeFailuresThenPoll ==
  [][\A i \in DOMAIN effects :
       /\ (CallbackOf(i) /\ effects'[i].lastEvent = "onerror") =>
            IF effects[i].sseFailCount + 1 >= 3
            THEN /\ effects'[i].polls = 1 /\ effects'[i].pollEvery = 10000
                 /\ effects'[i].reconnects = 0 /\ effects'[i].sources = 0
            ELSE /\ effects'[i].reconnects = 1 /\ effects'[i].polls = 0
       /\ (effects[i].polls > 0 /\ i \in DOMAIN effects') =>
            /\ effects'[i].es \notin {"connecting", "open"}
            /\ effects'[i].reconnects = 0]_vars

\* A run has given up the push channel after three failures and polls.
C13_Witness ==
  \E i \in DOMAIN effects :
    /\ effects[i].lastEvent = "onerror" /\ effects[i].sseFailCount = 3
    /\ effects[i].polls = 1 /\ effects[i].reconnectIn > 0

\* C14: a signed-in session that has started polling has no push channel
\* connecting or open for as long as it is signed in.
C14_NoPushAfterPolling ==
  \A i \in DOMAIN effects :
    (effects[i].sessionPolled /\ ~effects[i].cleaned) =>
      effects[i].es \notin {"connecting", "open"}

\* C15: in every session the poll interval does not run while a push
\* channel is open or a reconnect is pending, and there are never two
\* reconnect timers or two poll intervals.
C15_PushAndPollExclusive ==
  \A s \in Sessions :
    /\ RunningPolls(s) > 0 => (OpenSources(s) = 0 /\ PendingReconnects(s) = 0)
    /\ PendingReconnects(s) <= 1
    /\ RunningPolls(s) <= 1
    /\ OpenSources(s) <= 1

\* A session that polled was switched back to a push channel by a new run of
\* the effect, and the poll of the run before is gone.
C15_Witness ==
  \E i, j \in DOMAIN effects :
    /\ i < j /\ effects[i].session = effects[j].session
    /\ effects[i].cleaned /\ effects[i].pollEvery > 0 /\ effects[i].polls = 0
    /\ effects[j].sources = 1

\* C16: a run of the effect that has been cleaned up has no push channel,
\* no reconnect timer and no poll interval, at any later time.
C16_NothingOutlivesCleanup ==
  \A i \in DOMAIN effects :
    effects[i].cleaned =>
      /\ effects[i].sources = 0
      /\ effects[i].reconnects = 0
      /\ effects[i].polls = 0

\* C17: a heartbeat leaves sseFailCount as it is, and sseFailCount goes back
\* to 0 only on a transaction_update.
C17_ResetOnChangeOnly ==
  [][\A i \in DOMAIN effects :
       CallbackOf(i) =>
         /\ effects'[i].lastEvent = "heartbeat" =>
              effects'[i].sseFailCount = effects[i].sseFailCount
         /\ (effects[i].sseFailCount > 0 /\ effects'[i].sseFailCount = 0) =>
              effects'[i].lastEvent = "transaction_update"]_vars

\* C17 as amended: every message, a heartbeat included, leaves sseFailCount
\* at 0, and sseFailCount goes back to 0 only when the channel opens or a
\* message arrives.
C17_ResetOnOpenAndEveryMessage ==
  [][\A i \in DOMAIN effects :
       CallbackOf(i) =>
         /\ effects'[i].lastEvent \in {"connected", "heartbeat", "transaction_update", "error"}
              => effects'[i].sseFailCount = 0
         /\ (build = "App.tsx" /\ effects'[i].lastEvent = "open") =>
              effects'[i].sseFailCount = 0
         /\ (effects[i].sseFailCount > 0 /\ effects'[i].sseFailCount = 0) =>
              effects'[i].lastEvent \in
                {"open", "connected", "heartbeat", "transaction_update", "error"}]_vars

\* A heartbeat has arrived on a channel that was opened again after a failure.
C17_Witness ==
  \E i \in DOMAIN effects :
    /\ effects[i].lastEvent = "heartbeat"
    /\ effects[i].reconnectIn > 0
    /\ effects[i].sseFailCount = 0

(***************************************************************************)
(* Properties of the reload and of the server's endpoints.                 *)
(***************************************************************************)

\* C18: when loadFromCloud has completed with an ok response, the
\* transactions in memory are exactly the user's documents in the store.
C18_ReloadIsComplete ==
  [][(lastHandler' = "loadFromCloud" /\ loads' # loads /\ user # NULL) =>
       Docs(user, transactions') = RemoteAfter(user)]_vars

\* C19: a POST /api/transactions leaves the caller's documents either
\* exactly the submitted list (status 200) or exactly as they were (any
\* other status, as for a list with an id twice), and the documents of
\* other users as they were.
C19_BulkReplaceAllOrNothing ==
  [][\A req \in saves \ saves' :
       LET old == Remote(req.userId)
           new == RemoteAfter(req.userId)
           ids == {req.transactions[k].id : k \in DOMAIN req.transactions}
       IN  /\ lastPost'.status = 200 => new = Docs(req.userId, req.transactions)
           /\ lastPost'.status # 200 => new = old
           /\ Cardinality(ids) < Len(req.transactions) => lastPost'.status = 400
           /\ serverTransactions' \ new = serverTransactions \ old]_vars

\* A list with an id twice was rejected with status 400 and the caller
\* still has stored documents.
C19_Witness ==
  /\ lastPost.status = 400
  /\ saves = {}
  /\ Remote(lastPost.userId) # {}

\* C20: a step that changes the documents of a user hands a change event
\* to every channel open for that user, from which a transaction_update
\* is written.
C20_EveryMutationNotifies ==
  [][\A userId \in Users :
       RemoteAfter(userId) # Remote(userId) =>
         \A c \in ChannelIds :
           (sseChannels[c].open /\ sseChannels[c].userId = userId) =>
             sseChannels'[c].pending > sseChannels[c].pending]_vars

(***************************************************************************)
(* Properties of sessions of one user.                                     *)
(***************************************************************************)

InFlight(calls) == {k \in DOMAIN calls : calls[k].pc \in {"request", "response"}}

\* C22: isDataLoading is true for as long as a call of loadFromCloud is in
\* flight, and addTransaction does not run while isDataLoading is true.
C22_LoadingFlagGuardsAdd ==
  [][/\ InFlight(reloads') # {} => isDataLoading'
     /\ (lastHandler' = "addTransaction" /\ uuidSeq' # uuidSeq) => ~isDataLoading]_vars

\* C30: when two calls of loadFromCloud have both completed with an ok
\* response, the session has changed nothing itself and the store is as it
\* was when one of the calls was made (no write since), the transactions
\* in memory are the user's documents in the store.
C30_OverlappingReloadsConverge ==
  (/\ Len(reloads) >= 2
   /\ \A k \in DOMAIN reloads : reloads[k].pc = "done"
   /\ \E k \in DOMAIN reloads : reloads[k].stored = Remote(reloads[k].user)
   /\ uuidSeq = 0 /\ user # NULL)
    => Docs(user, transactions) = Remote(user)

(***************************************************************************)
(* Properties of the start-up.                                             *)
(***************************************************************************)

\* C23 as stated: after a start-up that found no saved user, the storage
\* mode is memory.
C23_NoSessionStartsInMemory ==
  (lastHandler = "loadInitialData" /\ lsUser = NULL) => storageMode = "memory"

\* C23 as amended: after a start-up that found no saved user, the storage
\* mode is local, with the persisted transactions in memory, when the local
\* transactions key holds an array, and memory otherwise.
C23_NoSessionStartsInLocalOrMemory ==
  (lastHandler = "loadInitialData" /\ lsUser = NULL) =>
    /\ user = NULL
    /\ IF lsTransactions # NULL
       THEN storageMode = "local" /\ transactions = lsTransactions
       ELSE storageMode = "memory" /\ transactions = <<>>

\* A page load without a saved user has found persisted transactions.
C23_Witness ==
  /\ lastHandler = "loadInitialData"
  /\ lsUser = NULL /\ user = NULL
  /\ lsTransactions # NULL /\ Len(lsTransactions) > 0
  /\ storageMode = "local"

(***************************************************************************)
(* Properties of the rules under edits.                                    *)
(***************************************************************************)

\* The rules a query at the clock's time has to return, stated on the
\* fields of the documents.
ActiveDueAndNotEnded ==
  {i \in RuleIds :
     /\ recurringTransactions[i].isActive = TRUE
     /\ recurringTransactions[i].nextDueDate <= now
     /\ (recurringTransactions[i].endDate = NoDate
           \/ recurringTransactions[i].endDate >= now)}

\* C24: a run whose query is answered selects exactly the rules that are
\* active, due at now and not ended at now; every Transaction it saves
\* and every nextDueDate and lastProcessed it writes is of a rule it
\* selected, every other rule is left as it was by each of its steps; and a
\* run that ends without a store error has processed every rule it selected.
C24_ProcessesExactlyTheDueRules ==
  [][/\ (Len(runLog') > Len(runLog) /\ runLog'[Len(runLog')].outcome # "failed") =>
          runLog'[Len(runLog')].selected = ActiveDueAndNotEnded
     /\ \A m \in materialized' \ materialized : m.rule \in runLog[m.run].selected
     /\ \A a \in advanced' \ advanced : a.rule \in runLog[a.run].selected
     /\ \A p \in EntryPoints :
          (proc[p].pc # "idle" /\ proc'[p] # proc[p]) =>
            \A i \in RuleIds \ runLog[proc[p].run].selected :
              recurringTransactions'[i] = recurringTransactions[i]
     /\ \A run \in DOMAIN runLog :
          (runLog[run].outcome = "running" /\ runLog'[run].outcome = "ok") =>
            \A r \in runLog[run].selected :
              /\ \E m \in materialized' : m.run = run /\ m.rule = r
              /\ \E a \in advanced' : a.run = run /\ a.rule = r]_vars

\* A run has ended that processed a due rule and passed over a deactivated
\* rule whose nextDueDate was due.
C24_Witness ==
  \E run \in Runs : \E r, i \in RuleIds :
    /\ runLog[run].outcome = "ok"
    /\ r \in runLog[run].selected /\ MaterializedBy(run, r) # {}
    /\ i \notin runLog[run].selected
    /\ ~recurringTransactions[i].isActive
    /\ recurringTransactions[i].nextDueDate <= runLog[run].now
    /\ recurringTransactions[i].lastProcessed = NoDate
    /\ MaterializedBy(run, i) = {}

\* C25: no step of the engine or of a rule edit decreases the nextDueDate
\* of a rule.
C25_CursorNeverDecreases ==
  [][\A i \in RuleIds :
       recurringTransactions'[i].nextDueDate >= recurringTransactions[i].nextDueDate]_vars

\* C26: a DELETE leaves the rule in the collection with isActive false
\* and its other fields as they were, no step removes a rule, and no
\* Transaction is saved from a rule whose isActive is false.
C26_SoftDeleteStopsTheRule ==
  [][/\ Len(recurringTransactions') >= Len(recurringTransactions)
     /\ \A i \in RuleIds :
          (recurringTransactions[i].isActive /\ ~recurringTransactions'[i].isActive) =>
            recurringTransactions'[i] = [recurringTransactions[i] EXCEPT !.isActive = FALSE]
     /\ \A m \in materialized' \ materialized :
          recurringTransactions[m.rule].isActive]_vars

(***************************************************************************)
(* Properties of the unique index.                                         *)
(***************************************************************************)

\* The step is a POST /api/transactions/add that was answered.
AddAnswered ==
  /\ lastPost' # lastPost
  /\ saves' = saves
  /\ lastPost'.status \in {201, 400}

\* The documents of the caller, and of other users, with an id the callers send.
CallerHasId == \E d \in Remote(lastPost'.userId) : d.transactionId \in ApiIds
OtherUserHasId ==
  \E d \in serverTransactions : d.userId # lastPost'.userId /\ d.transactionId \in ApiIds

\* C27: no two documents of the collection have the same userId and
\* transactionId; a POST /api/transactions/add with an id the caller has
\* already is answered with a 4xx status and changes nothing; with an id
\* only another user has it is accepted and adds one document of the caller.
C27_UniquePerUser ==
  [][/\ \A d1, d2 \in serverTransactions' :
          (d1.userId = d2.userId /\ d1.transactionId = d2.transactionId) => d1 = d2
     /\ (AddAnswered /\ CallerHasId) =>
          /\ lastPost'.status \in 400..499
          /\ serverTransactions' = serverTransactions
     /\ (AddAnswered /\ ~CallerHasId /\ OtherUserHasId) =>
          /\ lastPost'.status = 201
          /\ Cardinality(RemoteAfter(lastPost'.userId))
               = Cardinality(Remote(lastPost'.userId)) + 1
          /\ \A d \in serverTransactions : d \in serverTransactions']_vars

\* An add with an id the caller has was rejected with status 400, while
\* another user has a document with that id.
C27_Witness ==
  /\ lastPost.status = 400
  /\ \E d \in serverTransactions : d.userId = "u1" /\ d.transactionId \in ApiIds
  /\ \E d \in serverTransactions : d.userId = "u2" /\ d.transactionId \in ApiIds

(***************************************************************************)
(* Properties of adding in remote mode.                                    *)
(***************************************************************************)

\* C28: when the bulk replace of an addTransaction that ran after the
\* session's reload had completed commits, the user's documents are those
\* stored before plus the new transaction.
C28_AddKeepsStoredTransactions ==
  [][(/\ saves' # saves /\ lastPost'.status = 200
      /\ lastHandler = "addTransaction" /\ loads = {}
      /\ user # NULL /\ storageMode = "cloud") =>
       RemoteAfter(user) =
         Remote(user) \cup {[userId |-> user, transactionId |-> transactions[1].id,
                             date |-> transactions[1].date]}]_vars

\* C29: after handleLogout, and before the user does anything else, the
\* response of a loadFromCloud that was in flight at logout leaves the
\* in-memory list what logout made it.
C29_LogoutStateSurvivesReload ==
  [][(user = NULL /\ lastHandler = "handleLogout" /\ lastHandler' = "loadFromCloud") =>
       transactions' = transactions]_vars

====
